---- MODULE Spec2Model ----
(***************************************************************************)
(* A model of the monodepth2 inference driver (test_simple.py) and of the  *)
(* Oxford dataset loader (datasets/oxford_dataset.py).                     *)
(*                                                                         *)
(* Two specifications share the variables:                                 *)
(*   Spec   the run of test_simple.py: parse_args, then test_simple step   *)
(*          by step (model load, input discovery, the per-frame pipeline); *)
(*   SpecK  the construction of an OXFORDRAWDataset (the intrinsics        *)
(*          computation of __init__) followed by get_image_path calls.     *)
(*                                                                         *)
(* Real numbers (Python floats) are modelled as exact rationals <<n, d>>   *)
(* in lowest terms, d > 0.  Strings that the code takes apart (file names) *)
(* are sequences of tokens: "1_disp.jpg" is <<"1", "_disp", ".jpg">>.      *)
(***************************************************************************)
EXTENDS Integers, Sequences, FiniteSets, TLC

VARIABLES
    args,              \* the argparse namespace handed to test_simple
    image_size,        \* (width, height) of the images found on disk
    pc,                \* position of the run in the program
    err,               \* the exception that ended the run, "none" otherwise
    net,               \* encoder / depth_decoder and the feed resolution
    output_directory,  \* segments of the output directory, <<>> before it is set
    train_filenames,   \* the lines test_simple read from the split file
    paths,             \* the frame list built by test_simple
    idx,               \* 1-based position of the loop in paths
    cur,               \* the locals of the current loop iteration
    disk,              \* the files of the output directory
    stats,             \* counters of what the run has done so far
    ds,                \* the OXFORDRAWDataset object (SpecK)
    ret                \* result of the last get_image_path call (SpecK)

vars == <<args, image_size, pc, err, net, output_directory, train_filenames,
          paths, idx, cur, disk, stats, ds, ret>>

driverVars == <<args, image_size, pc, err, net, output_directory,
                train_filenames, paths, idx, cur, disk, stats>>

-----------------------------------------------------------------------------
(* Bounds of the model                                                     *)

MaxLines == 2      \* longest split file read by test_simple
MaxW == 3          \* widest sensor of SpecK
MaxH == 2          \* tallest sensor of SpecK

-----------------------------------------------------------------------------
(* Exact rational arithmetic standing for Python's float arithmetic        *)

RECURSIVE GCD(_, _)
GCD(a, b) == IF b = 0 THEN a ELSE GCD(b, a % b)

Abs(n) == IF n < 0 THEN -n ELSE n

Norm(q) ==
    LET s == IF q[2] < 0 THEN -1 ELSE 1
        g == GCD(Abs(q[1]), Abs(q[2]))
    IN  <<(s * q[1]) \div g, (s * q[2]) \div g>>

R(n) == <<n, 1>>
RAdd(p, q) == Norm(<<p[1] * q[2] + q[1] * p[2], p[2] * q[2]>>)
RSub(p, q) == Norm(<<p[1] * q[2] - q[1] * p[2], p[2] * q[2]>>)
RMul(p, q) == Norm(<<p[1] * q[1], p[2] * q[2]>>)
RDiv(p, q) == Norm(<<p[1] * q[2], p[2] * q[1]>>)
RLe(p, q) == p[1] * q[2] <= q[1] * p[2]

-----------------------------------------------------------------------------
(* Python values, strings and paths                                        *)

PyStr(s) == [t |-> "str", s |-> s, i |-> 0]
PyInt(i) == [t |-> "int", s |-> "", i |-> i]

\* a path: the directory segments and the tokens of the file name
Path(dir, name) == [dir |-> dir, name |-> name]
NoPath == Path(<<>>, <<>>)

Extensions == {".jpg", ".jpeg", ".png", ".npy"}

\* image_path.endswith("_disp.jpg")
EndsWithDispJpg(p) ==
    /\ Len(p.name) >= 2
    /\ p.name[Len(p.name) - 1] = "_disp"
    /\ p.name[Len(p.name)] = ".jpg"

\* os.path.splitext(os.path.basename(image_path))[0]
OutputName(p) ==
    IF Len(p.name) >= 2 /\ p.name[Len(p.name)] \in Extensions
    THEN SubSeq(p.name, 1, Len(p.name) - 1)
    ELSE p.name

\* module constants of test_simple.py: the two output roots
kitti_path == "results/monodepth2/KITTI"
oxford_path == "results/monodepth2/OXFORD"

\* side_map of the KITTI branch: its values are integers
KittiSideMap ==
    ("2" :> PyInt(2)) @@ ("3" :> PyInt(3)) @@ ("l" :> PyInt(2)) @@ ("r" :> PyInt(3))

\* side_map of the OXFORD branch, and of OXFORDDataset
OxfordSideMap == ("l" :> PyStr("left")) @@ ("r" :> PyStr("right"))

\* os.path.join(splitted[0], side_map[splitted[2]], "{}{}".format(splitted[1], '.jpg')):
\* KeyError for a token outside the table, TypeError for a component that is no string
LinePath(line, side_map) ==
    IF line.side \notin DOMAIN side_map
    THEN [err |-> "side", path |-> NoPath]
    ELSE LET sv == side_map[line.side]
         IN  IF sv.t # "str"
             THEN [err |-> "type", path |-> NoPath]
             ELSE [err |-> "none",
                   path |-> Path(<<line.folder, sv.s>>, line.frame \o <<".jpg">>)]

\* the loop "for file in train_filenames: paths.append(...)": the first
\* exception ends it
RECURSIVE BuildPaths(_, _, _)
BuildPaths(lines, side_map, acc) ==
    IF lines = <<>>
    THEN [err |-> "none", paths |-> acc]
    ELSE LET r == LinePath(Head(lines), side_map)
         IN  IF r.err # "none"
             THEN [err |-> r.err, paths |-> <<>>]
             ELSE BuildPaths(Tail(lines), side_map, Append(acc, r.path))

-----------------------------------------------------------------------------
(* The inputs of a run                                                     *)

DatasetChoices == {"KITTI", "OXFORD"}
DatasetTokens == DatasetChoices \cup {"CITYSCAPES"}
ResnetTokens == {18, 34, 50}

ImagePaths ==
    { [kind |-> "file", path |-> Path(<<"in">>, <<"7", ".jpg">>)],
      [kind |-> "file", path |-> Path(<<"in">>, <<"7", "_disp", ".jpg">>)],
      [kind |-> "dir", path |-> Path(<<"in">>, <<>>)],
      [kind |-> "missing", path |-> Path(<<"nowhere">>, <<>>)] }

\* (x0, y0, x1, y1)
CropAreas == { <<0, 1, 4, 3>>, <<1, 0, 3, 3>> }
ImageSizes == { <<4, 3>>, <<2, 1>> }
\* (feed_width, feed_height) stored in the encoder checkpoint
FeedSizes == { <<2, 1>> }
\* outputs[("disp", 0)], a sigmoid output in [0, 1]
DispOutputs == { <<1, 111>>, <<1, 1>> }

Frames == { <<"1">>, <<"2">>, <<"2", "_disp">> }
SideTokens == {"l", "r", "x"}
Lines == [folder : {"A"}, frame : Frames, side : SideTokens]

RECURSIVE SeqsUpTo(_, _)
SeqsUpTo(S, n) ==
    IF n = 0 THEN {<<>>}
    ELSE LET shorter == SeqsUpTo(S, n - 1)
         IN  shorter \cup {Append(q, x) : q \in {r \in shorter : Len(r) = n - 1}, x \in S}

SplitFiles == SeqsUpTo(Lines, MaxLines)

NoCur ==
    [steps |-> <<>>, size |-> <<0, 0>>, original |-> <<0, 0>>,
     disp |-> <<0, 1>>, disp_shape |-> <<0, 0>>, disp_resized_shape |-> <<0, 0>>,
     depth |-> <<0, 1>>, scaled_disp |-> <<0, 1>>, npy |-> <<>>]

NoDataset == [built |-> FALSE, input |-> <<>>, K |-> <<>>, crop_center |-> <<>>,
              side_map |-> <<>>, img_ext |-> ""]
NoRet == [called |-> FALSE, side |-> "", err |-> "none", path |-> NoPath]

Init ==
    /\ args \in [image_path : ImagePaths, dataset : DatasetTokens,
                 use_test_set : BOOLEAN, pred_metric_depth : BOOLEAN,
                 resnet : ResnetTokens, crop_area : CropAreas,
                 model : {"m"}, dataset_run : {"r"}]
    /\ image_size \in ImageSizes
    /\ pc = "main"
    /\ err = "none"
    /\ net = [encoder |-> "none", depth_decoder |-> "none", feed |-> <<0, 0>>]
    /\ output_directory = <<>>
    /\ train_filenames = <<>>
    /\ paths = <<>>
    /\ idx = 1
    /\ cur = NoCur
    /\ disk = {}
    /\ stats = [enc_loads |-> 0, dec_loads |-> 0, forwards |-> 0,
                writes |-> 0, overwrites |-> 0]
    /\ ds = NoDataset
    /\ ret = NoRet

Raise(kind) == pc' = "error" /\ err' = kind

-----------------------------------------------------------------------------
(* layers.disp_to_depth and the metric scale factors                       *)

\* evaluate_depth.STEREO_SCALE_FACTOR, 5.4
STEREO_SCALE_FACTOR == <<27, 5>>

\* disp_to_depth(disp, min_depth, max_depth) -> (scaled_disp, depth)
disp_to_depth(disp, min_depth, max_depth) ==
    LET min_disp == RDiv(R(1), max_depth)
        max_disp == RDiv(R(1), min_depth)
        scaled_disp == RAdd(min_disp, RMul(RSub(max_disp, min_disp), disp))
        depth == RDiv(R(1), scaled_disp)
    IN  <<scaled_disp, depth>>

\* variant of MetricDepth with the two dataset factors exchanged
MetricDepth_SwappedFactor(dataset, depth) ==
    IF dataset = "KITTI"
    THEN RMul(RDiv(<<24, 100>>, <<1, 10>>), depth)
    ELSE RMul(STEREO_SCALE_FACTOR, depth)

\* metric_depth of the two "if args.dataset ==" branches
MetricDepth(dataset, depth) ==
    IF dataset = "KITTI"
    THEN RMul(STEREO_SCALE_FACTOR, depth)
    ELSE LET oxford_baseline == <<24, 100>>
             stereo_scale_factor == RDiv(oxford_baseline, <<1, 10>>)
         IN  RMul(stereo_scale_factor, depth)

\* variant of NumericOutput that ignores the metric flag
NumericOutput_AlwaysDisp(a, output_name, scaled_disp, depth) ==
    [name |-> output_name \o <<"_disp", ".npy">>, val |-> scaled_disp]

\* the numeric file of a frame: its name and what np.save is given
NumericOutput(a, output_name, scaled_disp, depth) ==
    IF a.pred_metric_depth
    THEN [name |-> output_name \o <<"_depth", ".npy">>,
          val |-> MetricDepth(a.dataset, depth)]
    ELSE [name |-> output_name \o <<"_disp", ".npy">>, val |-> scaled_disp]

\* PIL.Image.crop(box).size
PilCropSize(box) == <<box[3] - box[1], box[4] - box[2]>>

\* a file of the output directory; frame is the loop position that wrote it
File(dir, name, kind, shape, val, frame) ==
    [dir |-> dir, name |-> name, kind |-> kind, shape |-> shape, val |-> val,
     frame |-> frame]

Exists(d, dir, name) == \E f \in d : f.dir = dir /\ f.name = name

\* np.save / Image.save: a file of the same name is replaced
WriteFile(d, file) ==
    {f \in d : ~(f.dir = file.dir /\ f.name = file.name)} \cup {file}

-----------------------------------------------------------------------------
(* test_simple.py, step by step                                            *)

\* parse_args: --dataset has choices=['KITTI', 'OXFORD']; --resnet is any int
ParseArgs ==
    /\ pc = "main"
    /\ IF args.dataset \in DatasetChoices
       THEN pc' = "build" /\ err' = err
       ELSE Raise("dataset")
    /\ UNCHANGED <<args, image_size, net, output_directory, train_filenames,
                   paths, idx, cur, disk, stats, ds, ret>>

\* variant of BuildEncoder that loads the checkpoint before the selector test
BuildEncoder_CheckAfterLoad ==
    /\ pc = "build"
    /\ IF args.resnet \in {18, 50}
       THEN /\ net' = [net EXCEPT !.encoder = "built"]
            /\ pc' = "load_enc" /\ err' = err
            /\ stats' = stats
       ELSE /\ Raise("resnet")
            /\ net' = [net EXCEPT !.encoder = "loaded"]
            /\ stats' = [stats EXCEPT !.enc_loads = @ + 1]
    /\ UNCHANGED <<args, image_size, output_directory, train_filenames, paths,
                   idx, cur, disk, ds, ret>>

\* networks.ResnetEncoder(18 | 50, False), else raise
BuildEncoder ==
    /\ pc = "build"
    /\ IF args.resnet \in {18, 50}
       THEN /\ net' = [net EXCEPT !.encoder = "built"]
            /\ pc' = "load_enc" /\ err' = err
       ELSE /\ Raise("resnet")
            /\ net' = net
    /\ UNCHANGED <<args, image_size, output_directory, train_filenames, paths,
                   idx, cur, disk, stats, ds, ret>>

\* torch.load(encoder_path), feed_height / feed_width, load_state_dict
LoadEncoder ==
    /\ pc = "load_enc"
    /\ \E f \in FeedSizes :
          net' = [net EXCEPT !.encoder = "loaded", !.feed = f]
    /\ stats' = [stats EXCEPT !.enc_loads = @ + 1]
    /\ pc' = "load_dec"
    /\ UNCHANGED <<args, image_size, err, output_directory, train_filenames,
                   paths, idx, cur, disk, ds, ret>>

\* networks.DepthDecoder, torch.load(depth_decoder_path), load_state_dict
LoadDecoder ==
    /\ pc = "load_dec"
    /\ net' = [net EXCEPT !.depth_decoder = "loaded"]
    /\ stats' = [stats EXCEPT !.dec_loads = @ + 1]
    /\ pc' = "outdir"
    /\ UNCHANGED <<args, image_size, err, output_directory, train_filenames,
                   paths, idx, cur, disk, ds, ret>>

\* output_directory = os.path.join(<root of the dataset>, folder, run)
MakeOutputDir ==
    /\ pc = "outdir"
    /\ LET folder == args.model
           run == args.dataset_run
           d1 == IF args.dataset = "KITTI"
                 THEN <<kitti_path, folder, run>> ELSE output_directory
           d2 == IF args.dataset = "OXFORD"
                 THEN <<oxford_path, folder, run>> ELSE d1
       IN  output_directory' = d2
    /\ pc' = "find"
    /\ UNCHANGED <<args, image_size, err, net, train_filenames, paths, idx,
                   cur, disk, stats, ds, ret>>

\* os.path.isfile(args.image_path): paths = [args.image_path]
FindSingleImage ==
    /\ pc = "find"
    /\ args.image_path.kind = "file"
    /\ paths' = <<args.image_path.path>>
    /\ pc' = "loop"
    /\ UNCHANGED <<args, image_size, err, net, output_directory,
                   train_filenames, idx, cur, disk, stats, ds, ret>>

\* the paths built by the two "path finder" blocks from what readlines returns
DirPaths(a, kitti_lines, oxford_lines) ==
    LET k == IF a.dataset = "KITTI" /\ a.use_test_set
             THEN BuildPaths(kitti_lines, KittiSideMap, <<>>)
             ELSE [err |-> "none", paths |-> <<>>]
    IN  IF k.err # "none" THEN k
        ELSE IF a.dataset = "OXFORD" /\ a.use_test_set
             THEN BuildPaths(oxford_lines, OxfordSideMap, k.paths)
             ELSE k

\* readlines(test_file_path) is executed in one of the two branches only
ReadsSplitFile(a) == a.use_test_set /\ a.dataset \in {"KITTI", "OXFORD"}

\* os.path.isdir(args.image_path): the frame list comes from the split file
FindInDirectory ==
    /\ pc = "find"
    /\ args.image_path.kind = "dir"
    /\ \E lines \in SplitFiles :
          LET r == DirPaths(args, lines, lines)
          IN  /\ train_filenames' = (IF ReadsSplitFile(args) THEN lines ELSE <<>>)
              /\ IF r.err = "none"
                 THEN paths' = r.paths /\ pc' = "loop" /\ err' = err
                 ELSE paths' = paths /\ Raise(r.err)
    /\ UNCHANGED <<args, image_size, net, output_directory, idx, cur, disk,
                   stats, ds, ret>>

\* raise Exception("Can not find args.image_path")
FindNothing ==
    /\ pc = "find"
    /\ args.image_path.kind \notin {"file", "dir"}
    /\ Raise("path")
    /\ UNCHANGED <<args, image_size, net, output_directory, train_filenames,
                   paths, idx, cur, disk, stats, ds, ret>>

\* the loop is exhausted: print('-> Done!')
Finish ==
    /\ pc = "loop"
    /\ idx > Len(paths)
    /\ pc' = "done"
    /\ UNCHANGED <<args, image_size, err, net, output_directory,
                   train_filenames, paths, idx, cur, disk, stats, ds, ret>>

\* if image_path.endswith("_disp.jpg"): continue
SkipDisparityImage ==
    /\ pc = "loop"
    /\ idx <= Len(paths)
    /\ EndsWithDispJpg(paths[idx])
    /\ idx' = idx + 1
    /\ UNCHANGED <<args, image_size, pc, err, net, output_directory,
                   train_filenames, paths, cur, disk, stats, ds, ret>>

\* variant of OpenImage that records the decode error and goes on
OpenImage_SkipUnreadable ==
    /\ pc = "loop"
    /\ idx <= Len(paths)
    /\ ~EndsWithDispJpg(paths[idx])
    /\ \E readable \in BOOLEAN :
          IF readable
          THEN /\ cur' = [NoCur EXCEPT !.steps = <<"open">>, !.size = image_size]
               /\ pc' = "crop" /\ err' = err /\ idx' = idx
          ELSE /\ cur' = NoCur
               /\ pc' = "loop" /\ err' = "decode" /\ idx' = idx + 1
    /\ UNCHANGED <<args, image_size, net, output_directory, train_filenames,
                   paths, disk, stats, ds, ret>>

\* pil.open(image_path).convert('RGB'); the file may not decode
OpenImage ==
    /\ pc = "loop"
    /\ idx <= Len(paths)
    /\ ~EndsWithDispJpg(paths[idx])
    /\ \E readable \in BOOLEAN :
          IF readable
          THEN /\ cur' = [NoCur EXCEPT !.steps = <<"open">>, !.size = image_size]
               /\ pc' = "crop" /\ err' = err
          ELSE /\ cur' = NoCur
               /\ Raise("decode")
    /\ UNCHANGED <<args, image_size, net, output_directory, train_filenames,
                   paths, idx, disk, stats, ds, ret>>

\* variant of CropStep that keeps the size of the uncropped image
CropStep_FullFrameSize ==
    /\ pc = "crop"
    /\ LET steps == IF args.dataset = "OXFORD"
                    THEN Append(cur.steps, "crop") ELSE cur.steps
       IN  cur' = [cur EXCEPT !.steps = steps, !.original = image_size]
    /\ pc' = "resize"
    /\ UNCHANGED <<args, image_size, err, net, output_directory,
                   train_filenames, paths, idx, disk, stats, ds, ret>>

\* if args.dataset == 'OXFORD': crop; original_width, original_height = size
CropStep ==
    /\ pc = "crop"
    /\ LET size == IF args.dataset = "OXFORD"
                   THEN PilCropSize(args.crop_area) ELSE cur.size
           steps == IF args.dataset = "OXFORD"
                    THEN Append(cur.steps, "crop") ELSE cur.steps
       IN  cur' = [cur EXCEPT !.steps = steps, !.size = size, !.original = size]
    /\ pc' = "resize"
    /\ UNCHANGED <<args, image_size, err, net, output_directory,
                   train_filenames, paths, idx, disk, stats, ds, ret>>

\* input_image.resize((feed_width, feed_height), pil.LANCZOS), ToTensor
ResizeStep ==
    /\ pc = "resize"
    /\ cur' = [cur EXCEPT !.steps = Append(@, "resize"), !.size = net.feed]
    /\ pc' = "forward"
    /\ UNCHANGED <<args, image_size, err, net, output_directory,
                   train_filenames, paths, idx, disk, stats, ds, ret>>

\* encoder, depth_decoder, interpolate(disp, (original_height, original_width))
Forward ==
    /\ pc = "forward"
    /\ \E d \in DispOutputs :
          cur' = [cur EXCEPT !.steps = Append(@, "forward"),
                             !.disp = d,
                             !.disp_shape = <<cur.size[2], cur.size[1]>>,
                             !.disp_resized_shape =
                                 <<cur.original[2], cur.original[1]>>]
    /\ stats' = [stats EXCEPT !.forwards = @ + 1]
    /\ pc' = "save_npy"
    /\ UNCHANGED <<args, image_size, err, net, output_directory,
                   train_filenames, paths, idx, disk, ds, ret>>

\* disp_to_depth(disp, 0.1, 100) and np.save of the depth or the disparity
SaveNumpy ==
    /\ pc = "save_npy"
    /\ LET output_name == OutputName(paths[idx])
           dd == disp_to_depth(cur.disp, <<1, 10>>, R(100))
           out == NumericOutput(args, output_name, dd[1], dd[2])
           file == File(output_directory, out.name, "npy", cur.disp_shape,
                        out.val, idx)
       IN  /\ cur' = [cur EXCEPT !.steps = Append(@, "save_npy"),
                                 !.scaled_disp = dd[1], !.depth = dd[2],
                                 !.npy = out.name]
           /\ disk' = WriteFile(disk, file)
           /\ stats' = [stats EXCEPT
                 !.writes = @ + 1,
                 !.overwrites = @ + (IF Exists(disk, file.dir, file.name)
                                     THEN 1 ELSE 0)]
    /\ pc' = "save_im"
    /\ UNCHANGED <<args, image_size, err, net, output_directory,
                   train_filenames, paths, idx, ds, ret>>

\* the colormapped disp_resized, saved as {output_name}_disp.jpeg
SaveImage ==
    /\ pc = "save_im"
    /\ LET output_name == OutputName(paths[idx])
           file == File(output_directory, output_name \o <<"_disp", ".jpeg">>,
                        "jpeg", cur.disp_resized_shape, <<0, 1>>, idx)
       IN  /\ disk' = WriteFile(disk, file)
           /\ stats' = [stats EXCEPT
                 !.writes = @ + 1,
                 !.overwrites = @ + (IF Exists(disk, file.dir, file.name)
                                     THEN 1 ELSE 0)]
    /\ cur' = [cur EXCEPT !.steps = Append(@, "save_im")]
    /\ idx' = idx + 1
    /\ pc' = "loop"
    /\ UNCHANGED <<args, image_size, err, net, output_directory,
                   train_filenames, paths, ds, ret>>

Next ==
    \/ ParseArgs
    \/ BuildEncoder
    \/ LoadEncoder
    \/ LoadDecoder
    \/ MakeOutputDir
    \/ FindSingleImage
    \/ FindInDirectory
    \/ FindNothing
    \/ Finish
    \/ SkipDisparityImage
    \/ OpenImage
    \/ CropStep
    \/ ResizeStep
    \/ Forward
    \/ SaveNumpy
    \/ SaveImage

Spec == Init /\ [][Next]_vars

-----------------------------------------------------------------------------
(* datasets/oxford_dataset.py                                              *)

\* one row of the 4x4 matrix K
Row(a, b, c, d) == <<a, b, c, d>>

\* variant of Intrinsics with width and height exchanged in the normalization
Intrinsics_SwappedNorm(width, height, fx_px, fy_px, cx, cy, crop_area) ==
    LET fx == RDiv(fx_px, R(height))
        fy == RDiv(fy_px, R(width))
        crop_width == crop_area[3] - crop_area[1]
        crop_height == crop_area[4] - crop_area[2]
        crop_ci == RSub(R(crop_area[4]), RDiv(R(crop_height), R(2)))
        crop_cj == RSub(R(crop_area[3]), RDiv(R(crop_width), R(2)))
        crop_cx == RSub(RAdd(cx, RDiv(R(crop_width - 1), R(2))), crop_cj)
        crop_cy == RSub(RAdd(cy, RDiv(R(crop_height - 1), R(2))), crop_ci)
    IN  [K |-> << Row(fx, R(0), RDiv(crop_cx, R(height)), R(0)),
                  Row(R(0), fy, RDiv(crop_cy, R(width)), R(0)),
                  Row(R(0), R(0), R(1), R(0)),
                  Row(R(0), R(0), R(0), R(1)) >>,
         crop_center |-> <<crop_cj, crop_ci>>]

\* variant of Intrinsics with integer division in the crop center
Intrinsics_FloorDiv(width, height, fx_px, fy_px, cx, cy, crop_area) ==
    LET fx == RDiv(fx_px, R(width))
        fy == RDiv(fy_px, R(height))
        crop_width == crop_area[3] - crop_area[1]
        crop_height == crop_area[4] - crop_area[2]
        crop_ci == R(crop_area[4] - (crop_height \div 2))
        crop_cj == R(crop_area[3] - (crop_width \div 2))
        crop_cx == RSub(RAdd(cx, RDiv(R(crop_width - 1), R(2))), crop_cj)
        crop_cy == RSub(RAdd(cy, RDiv(R(crop_height - 1), R(2))), crop_ci)
    IN  [K |-> << Row(fx, R(0), RDiv(crop_cx, R(width)), R(0)),
                  Row(R(0), fy, RDiv(crop_cy, R(height)), R(0)),
                  Row(R(0), R(0), R(1), R(0)),
                  Row(R(0), R(0), R(0), R(1)) >>,
         crop_center |-> <<crop_cj, crop_ci>>]

\* OXFORDDataset.__init__: K and the crop center (crop_cj, crop_ci), with the
\* literals of the code (width, height, fx, fy, cx, cy, crop_area) as parameters
Intrinsics(width, height, fx_px, fy_px, cx, cy, crop_area) ==
    LET fx == RDiv(fx_px, R(width))
        fy == RDiv(fy_px, R(height))
        crop_width == crop_area[3] - crop_area[1]
        crop_height == crop_area[4] - crop_area[2]
        crop_ci == RSub(R(crop_area[4]), RDiv(R(crop_height), R(2)))
        crop_cj == RSub(R(crop_area[3]), RDiv(R(crop_width), R(2)))
        crop_cx == RSub(RAdd(cx, RDiv(R(crop_width - 1), R(2))), crop_cj)
        crop_cy == RSub(RAdd(cy, RDiv(R(crop_height - 1), R(2))), crop_ci)
    IN  [K |-> << Row(fx, R(0), RDiv(crop_cx, R(width)), R(0)),
                  Row(R(0), fy, RDiv(crop_cy, R(height)), R(0)),
                  Row(R(0), R(0), R(1), R(0)),
                  Row(R(0), R(0), R(0), R(1)) >>,
         crop_center |-> <<crop_cj, crop_ci>>]

\* pixel focal lengths (fx, fy) offered to the constructor
Focals == { <<R(3), R(3)>>, <<<<7, 2>>, <<5, 2>>>> }

\* crop windows (x0, y0, x1, y1) inside [0, w] x [0, h]
WindowsIn(w, h) ==
    { c \in (0..w) \X (0..h) \X (0..w) \X (0..h) : c[1] <= c[3] /\ c[2] <= c[4] }

DefaultArgs ==
    [image_path |-> [kind |-> "missing", path |-> Path(<<"nowhere">>, <<>>)],
     dataset |-> "OXFORD", use_test_set |-> FALSE, pred_metric_depth |-> FALSE,
     resnet |-> 18, crop_area |-> <<0, 1, 4, 3>>, model |-> "m",
     dataset_run |-> "r"]

InitK ==
    /\ args = DefaultArgs
    /\ image_size = <<4, 3>>
    /\ pc = "main"
    /\ err = "none"
    /\ net = [encoder |-> "none", depth_decoder |-> "none", feed |-> <<0, 0>>]
    /\ output_directory = <<>>
    /\ train_filenames = <<>>
    /\ paths = <<>>
    /\ idx = 1
    /\ cur = NoCur
    /\ disk = {}
    /\ stats = [enc_loads |-> 0, dec_loads |-> 0, forwards |-> 0,
                writes |-> 0, overwrites |-> 0]
    /\ ds = NoDataset
    /\ ret = NoRet

\* OXFORDRAWDataset(...): __init__ computes K and sets side_map
Construct ==
    /\ ~ds.built
    /\ \E width \in 1..MaxW, height \in 1..MaxH, f \in Focals,
          img_ext \in {".jpg", ".png"} :
       \E cx2 \in 0..(2 * width), cy2 \in 0..(2 * height),
          crop_area \in WindowsIn(width, height) :
          LET cx == Norm(<<cx2, 2>>)
              cy == Norm(<<cy2, 2>>)
              r == Intrinsics(width, height, f[1], f[2], cx, cy, crop_area)
          IN  ds' = [built |-> TRUE,
                     input |-> [width |-> width, height |-> height,
                                fx |-> f[1], fy |-> f[2], cx |-> cx, cy |-> cy,
                                crop_area |-> crop_area],
                     K |-> r.K,
                     crop_center |-> r.crop_center,
                     side_map |-> OxfordSideMap,
                     img_ext |-> img_ext]
    /\ UNCHANGED <<driverVars, ret>>

\* OXFORDRAWDataset.get_image_path(folder, frame_index, side)
get_image_path(self, folder, frame_index, side) ==
    IF side \notin DOMAIN self.side_map
    THEN [called |-> TRUE, side |-> side, err |-> "side", path |-> NoPath]
    ELSE LET f_str == frame_index \o <<self.img_ext>>
         IN  [called |-> TRUE, side |-> side, err |-> "none",
              path |-> Path(<<folder, self.side_map[side].s>>, f_str)]

GetImagePath ==
    /\ ds.built
    /\ \E folder \in {"A"}, frame_index \in {<<"1">>}, side \in SideTokens :
          ret' = get_image_path(ds, folder, frame_index, side)
    /\ UNCHANGED <<driverVars, ds>>

NextK ==
    \/ Construct
    \/ GetImagePath

SpecK == InitK /\ [][NextK]_vars

-----------------------------------------------------------------------------
(* Properties of test_simple.py (checked under Spec)                       *)

Failed(kinds) == pc = "error" /\ err \in kinds

\* positions of step s in the step list of the current frame
Pos(s) == {i \in 1..Len(cur.steps) : cur.steps[i] = s}
Before(s, t) == \A j \in Pos(t) : \E i \in Pos(s) : i < j

\* the frames of the list that the loop does not skip, among the first n
Processed(n) == {i \in 1..n : i <= Len(paths) /\ ~EndsWithDispJpg(paths[i])}

FilesOf(kind) == {f \in disk : f.kind = kind}

\* C1, as stated: a run that ends in a configuration error (resnet selector,
\* dataset kind, side token) or a path error has loaded no checkpoint and has
\* run no forward pass.
C1_NoLoadBeforeConfigError ==
    Failed({"dataset", "resnet", "side", "path"}) =>
        stats.enc_loads = 0 /\ stats.dec_loads = 0 /\ stats.forwards = 0

\* C1, amended: every such error ends the run before any forward pass and any
\* write; the resnet and dataset errors come before any checkpoint load, the
\* side and path errors come after both checkpoints were loaded.
C1_FailBeforeInference ==
    /\ Failed({"dataset", "resnet", "side", "path"}) =>
          stats.forwards = 0 /\ stats.writes = 0 /\ disk = {}
    /\ Failed({"dataset", "resnet"}) =>
          /\ stats.enc_loads = 0 /\ stats.dec_loads = 0
          /\ net.encoder # "loaded" /\ net.depth_decoder # "loaded"
    /\ Failed({"side", "path"}) =>
          /\ stats.enc_loads = 1 /\ stats.dec_loads = 1
          /\ net.encoder = "loaded" /\ net.depth_decoder = "loaded"

C1_Witness ==
    Failed({"path"}) /\ stats.dec_loads = 1 /\ stats.forwards = 0

\* C2, as stated: a completed run over a directory leaves one .npy and one
\* .jpeg per frame of the list (frames the loop skips as disparity images not
\* counted), and no write replaced a file of another frame.
C2_OnePairPerFrame ==
    (pc = "done" /\ args.image_path.kind = "dir") =>
        LET n == Cardinality(Processed(Len(paths)))
        IN  /\ Cardinality(FilesOf("npy")) = n
            /\ Cardinality(FilesOf("jpeg")) = n
            /\ stats.overwrites = 0

\* C3: once a frame fails to decode the run is over: nothing of that frame or
\* of a later one is on disk, every earlier unskipped frame went through the
\* network and its two writes, the failing step leaves the disk as it was and
\* no step follows it.
C3_DecodeErrorAborts ==
    /\ [](err = "decode" =>
            /\ pc = "error"
            /\ \A f \in disk : f.frame < idx
            /\ stats.forwards = Cardinality(Processed(idx - 1))
            /\ stats.writes = 2 * Cardinality(Processed(idx - 1)))
    /\ [][err' = "decode" => disk' = disk /\ idx' = idx]_vars
    /\ [][err # "decode"]_vars

C3_Witness ==
    /\ Failed({"decode"})
    /\ idx = 2
    /\ Cardinality(FilesOf("npy")) = 1
    /\ Cardinality(FilesOf("jpeg")) = 1

\* the directory keyed by dataset kind, model label and run label
KeyedDirectory ==
    <<IF args.dataset = "KITTI" THEN kitti_path ELSE oxford_path,
      args.model, args.dataset_run>>

\* C4: after the numeric write of a frame there is exactly one numeric file of
\* that frame, under the keyed directory: {stem}_depth.npy with the scaled
\* depth when the metric flag is set, {stem}_disp.npy with the scaled
\* disparity of disp_to_depth when it is not.
C4_OneNumericFile ==
    pc = "save_im" =>
        LET stem == OutputName(paths[idx])
            mine == {f \in FilesOf("npy") : f.frame = idx}
        IN  /\ Cardinality(mine) = 1
            /\ \A f \in mine :
                  /\ f.dir = KeyedDirectory
                  /\ IF args.pred_metric_depth
                     THEN /\ f.name = stem \o <<"_depth", ".npy">>
                          /\ f.val = MetricDepth(args.dataset, cur.depth)
                          /\ ~Exists(mine, f.dir, stem \o <<"_disp", ".npy">>)
                     ELSE /\ f.name = stem \o <<"_disp", ".npy">>
                          /\ f.val = cur.scaled_disp
                          /\ ~Exists(mine, f.dir, stem \o <<"_depth", ".npy">>)

C4_Witness ==
    /\ pc = "save_im"
    /\ args.pred_metric_depth
    /\ Exists(disk, KeyedDirectory, OutputName(paths[idx]) \o <<"_depth", ".npy">>)

\* C7: with the metric flag the saved array is the raw depth times
\* STEREO_SCALE_FACTOR (KITTI) or times 2.4 (OXFORD); an OXFORD raw depth of
\* 10.0 is saved as 24.0.
C7_MetricScale ==
    (pc = "save_im" /\ args.pred_metric_depth) =>
        \A f \in FilesOf("npy") :
            f.frame = idx =>
                /\ args.dataset = "KITTI" =>
                      f.val[1] * cur.depth[2] * STEREO_SCALE_FACTOR[2]
                          = STEREO_SCALE_FACTOR[1] * cur.depth[1] * f.val[2]
                /\ args.dataset = "OXFORD" =>
                      f.val[1] * cur.depth[2] * 10 = 24 * cur.depth[1] * f.val[2]
                /\ (args.dataset = "OXFORD" /\ cur.depth = <<10, 1>>) =>
                      f.val = <<24, 1>>

C7_Witness ==
    /\ pc = "save_im"
    /\ args.pred_metric_depth
    /\ args.dataset = "OXFORD"
    /\ cur.depth = <<10, 1>>
    /\ \E f \in FilesOf("npy") : f.frame = idx /\ f.val = <<24, 1>>

\* C6, as stated: a split-file line (folder, frame_index, side) becomes
\* folder/left/frame_index.jpg or folder/right/frame_index.jpg for either
\* dataset kind, and a side token outside {l, r} ends the run with an
\* unknown-side error and no path.
C6_SideTable ==
    (train_filenames # <<>> /\ pc # "find") =>
        IF \A i \in 1..Len(train_filenames) : train_filenames[i].side \in {"l", "r"}
        THEN /\ err \notin {"side", "type"}
             /\ Len(paths) = Len(train_filenames)
             /\ \A i \in 1..Len(paths) :
                   LET line == train_filenames[i]
                   IN  /\ paths[i].dir =
                            <<line.folder, IF line.side = "l" THEN "left" ELSE "right">>
                       /\ paths[i].name = line.frame \o <<".jpg">>
        ELSE Failed({"side"}) /\ paths = <<>>

\* C8, as stated: the numeric array and the colormap image of a frame have the
\* height and width of the image before it was resized to the feed resolution.
C8_SameResolution ==
    (pc = "loop" /\ Pos("save_im") # {}) =>
        \A f \in disk :
            f.frame = idx - 1 => f.shape = <<cur.original[2], cur.original[1]>>

\* C10, as stated: the crop window is always supplied (it has a default), so
\* every frame is cropped with it before the resize, the forward pass and the
\* writes, and the disparity is resized back to the size of the crop.
C10_CropWheneverSupplied ==
    /\ Pos("resize") # {} => Pos("crop") # {}
    /\ Before("crop", "resize")
    /\ Pos("forward") # {} =>
          cur.disp_resized_shape =
              <<PilCropSize(args.crop_area)[2], PilCropSize(args.crop_area)[1]>>

\* C10, amended: for the OXFORD dataset kind the decoded image is cropped with
\* crop_area before the resize, the forward pass and the writes, and the
\* disparity is resized back to the size of the crop; for any other kind the
\* image is never cropped and the size of the decoded image is used.
C10_CropForOxford ==
    /\ args.dataset = "OXFORD" =>
          /\ Pos("resize") # {} => Pos("crop") # {}
          /\ Before("open", "crop")
          /\ \A s \in {"resize", "forward", "save_npy", "save_im"} : Before("crop", s)
          /\ Pos("crop") # {} => cur.original = PilCropSize(args.crop_area)
          /\ Pos("forward") # {} =>
                cur.disp_resized_shape =
                    <<args.crop_area[4] - args.crop_area[2],
                      args.crop_area[3] - args.crop_area[1]>>
    /\ args.dataset # "OXFORD" =>
          /\ Pos("crop") = {}
          /\ Pos("forward") # {} =>
                cur.disp_resized_shape = <<image_size[2], image_size[1]>>

C10_Witness ==
    /\ args.dataset = "OXFORD"
    /\ pc = "loop"
    /\ cur.steps = <<"open", "crop", "resize", "forward", "save_npy", "save_im">>
    /\ cur.original # image_size

-----------------------------------------------------------------------------
(* Properties of OXFORDDataset.__init__ (checked under SpecK)              *)

Centered(in) ==
    /\ in.cx[1] * 2 = (in.crop_area[1] + in.crop_area[3]) * in.cx[2]
    /\ in.cy[1] * 2 = (in.crop_area[2] + in.crop_area[4]) * in.cy[2]

NonEmpty(c) == c[1] < c[3] /\ c[2] < c[4]

InUnit(q) == RLe(<<0, 1>>, q) /\ RLe(q, <<1, 1>>)

FocalKept(in, K) ==
    /\ K[1][1][1] * in.fx[2] * in.width = in.fx[1] * K[1][1][2]
    /\ K[2][2][1] * in.fy[2] * in.height = in.fy[1] * K[2][2][2]

\* C5, as stated: for every crop window inside the sensor, fx and fy of K are
\* fx_px / W and fy_px / H, and cx, cy of K lie in [0, 1] when the window is
\* centered on the principal point.
C5_AnyWindow ==
    ds.built =>
        /\ FocalKept(ds.input, ds.K)
        /\ Centered(ds.input) => InUnit(ds.K[1][3]) /\ InUnit(ds.K[2][3])

\* C5, amended: the same for every crop window of width and height at least 1.
C5_NonEmptyWindow ==
    ds.built =>
        /\ FocalKept(ds.input, ds.K)
        /\ (Centered(ds.input) /\ NonEmpty(ds.input.crop_area)) =>
              InUnit(ds.K[1][3]) /\ InUnit(ds.K[2][3])

C5_Witness ==
    /\ ds.built
    /\ Centered(ds.input)
    /\ NonEmpty(ds.input.crop_area)
    /\ ds.input.crop_area[1] > 0
    /\ ds.input.crop_area[3] < ds.input.width
    /\ InUnit(ds.K[1][3])

GeometricCenter(c, center) ==
    /\ center[1][1] * 2 = (c[1] + c[3]) * center[1][2]
    /\ center[2][1] * 2 = (c[2] + c[4]) * center[2][2]

\* C9, as stated: the computed crop center is the geometric center of the
\* window only when x0 = 0 and y0 = 0.
C9_CenterOnlyAtOrigin ==
    (ds.built /\ GeometricCenter(ds.input.crop_area, ds.crop_center)) =>
        ds.input.crop_area[1] = 0 /\ ds.input.crop_area[2] = 0

\* C9, amended: the computed crop center (x1 - crop_width/2, y1 - crop_height/2)
\* is the geometric center ((x0+x1)/2, (y0+y1)/2) of every crop window.
C9_CenterAlways ==
    ds.built => GeometricCenter(ds.input.crop_area, ds.crop_center)

C9_Witness ==
    /\ ds.built
    /\ ds.input.crop_area[1] > 0
    /\ ds.input.crop_area[2] > 0
    /\ ds.input.crop_area[3] - ds.input.crop_area[1] = 1
    /\ GeometricCenter(ds.input.crop_area, ds.crop_center)

====
